---- MODULE Spec2Model ----
(***************************************************************************)
(* Model of nrf-hal-common/src/ccm.rs: the blocking driver of the AES-CCM  *)
(* peripheral.  CcmData is the nonce state the peripheral reads through     *)
(* EasyDMA; Ccm::encrypt_packet and Ccm::decrypt_packet validate a request, *)
(* program the peripheral, run the key-stream generation and the crypt      *)
(* task, poll the events and update the packet counter.                     *)
(***************************************************************************)
EXTENDS Integers, Sequences, FiniteSets, TLC

(***************************************************************************)
(* Constants of ccm.rs                                                      *)
(***************************************************************************)
MINIMUM_SCRATCH_AREA_SIZE == 43
HEADER_SIZE == 3
LENGTH_HEADER_INDEX == 1
MIC_SIZE == 4
MAXIMUM_LENGTH_5BITS == 31
U8_MAX == 255

(***************************************************************************)
(* Bounds of the exploration                                                *)
(***************************************************************************)
\* driver calls (encrypt_packet / decrypt_packet) in one behaviour
MaxCalls == 2
\* direct CcmData calls (set_*, increment_counter, decrement_counter)
MaxNonceOps == 1

Max(a, b) == IF a >= b THEN a ELSE b
Min(a, b) == IF a <= b THEN a ELSE b

(***************************************************************************)
(* u64 values.  The packet counter is kept as 8 little-endian bytes and is  *)
(* converted to a u64 for the arithmetic.  A u64 is held here as three      *)
(* limbs (bits 0..23, 24..47, 48..63), each small enough for TLC.           *)
(***************************************************************************)
Limb24 == 16777216
Limb16 == 65536

u64_from_le_bytes(b) ==
    [lo  |-> b[1] + 256 * b[2] + 65536 * b[3],
     mid |-> b[4] + 256 * b[5] + 65536 * b[6],
     hi  |-> b[7] + 256 * b[8]]

u64_to_le_bytes(v) ==
    << v.lo % 256, (v.lo \div 256) % 256, (v.lo \div 65536) % 256,
       v.mid % 256, (v.mid \div 256) % 256, (v.mid \div 65536) % 256,
       v.hi % 256, (v.hi \div 256) % 256 >>

\* 0x7F_FFFF_FFFF: 39 bits set
MAXIMUM_COUNTER == [lo |-> Limb24 - 1, mid |-> 32767, hi |-> 0]

U64Zero == [lo |-> 0, mid |-> 0, hi |-> 0]

\* a < b on u64
U64Less(a, b) ==
    \/ a.hi < b.hi
    \/ a.hi = b.hi /\ a.mid < b.mid
    \/ a.hi = b.hi /\ a.mid = b.mid /\ a.lo < b.lo

\* counter += 1 on u64 (wrapping at 2^64, which the guard never lets happen)
U64AddOne(a) ==
    IF a.lo < Limb24 - 1 THEN [a EXCEPT !.lo = a.lo + 1]
    ELSE IF a.mid < Limb24 - 1 THEN [a EXCEPT !.lo = 0, !.mid = a.mid + 1]
    ELSE [lo |-> 0, mid |-> 0, hi |-> (a.hi + 1) % Limb16]

\* counter -= 1 on u64 (wrapping at 0, which the guard never lets happen)
U64SubOne(a) ==
    IF a.lo > 0 THEN [a EXCEPT !.lo = a.lo - 1]
    ELSE IF a.mid > 0 THEN [a EXCEPT !.lo = Limb24 - 1, !.mid = a.mid - 1]
    ELSE [lo |-> Limb24 - 1, mid |-> Limb24 - 1, hi |-> (a.hi + Limb16 - 1) % Limb16]

(***************************************************************************)
(* CcmData                                                                  *)
(***************************************************************************)
\* stand-ins for the values of a [u8; 16] key and of a [u8; 8] vector
Keys == {"keyA", "keyB"}
Ivs == {"ivA", "ivB"}

CcmData_new(key, initialization_vector) ==
    [key |-> key,
     packet_counter |-> <<0, 0, 0, 0, 0, 0, 0, 0>>,
     direction |-> 0,
     initialization_vector |-> initialization_vector]

CcmData_set_key(d, key) == [d EXCEPT !.key = key]

CcmData_set_iv(d, initialization_vector) ==
    [d EXCEPT !.initialization_vector = initialization_vector]

CcmData_set_direction(d, direction) ==
    [d EXCEPT !.direction = IF direction THEN 1 ELSE 0]

\* mutant: the wrap-around test compares against the width of the field
CcmData_increment_counter_nowrap(d) ==
    [d EXCEPT !.packet_counter =
        u64_to_le_bytes(U64AddOne(u64_from_le_bytes(d.packet_counter)))]

\* mutant: the wrap-around test is off by one (<= instead of <)
CcmData_increment_counter_lte(d) ==
    LET counter == u64_from_le_bytes(d.packet_counter)
        next == IF U64Less(counter, MAXIMUM_COUNTER) \/ counter = MAXIMUM_COUNTER
                THEN U64AddOne(counter)
                ELSE U64Zero
    IN [d EXCEPT !.packet_counter = u64_to_le_bytes(next)]

CcmData_increment_counter(d) ==
    LET counter == u64_from_le_bytes(d.packet_counter)
        next == IF U64Less(counter, MAXIMUM_COUNTER)
                THEN U64AddOne(counter)
                ELSE U64Zero
    IN [d EXCEPT !.packet_counter = u64_to_le_bytes(next)]

\* mutant: the guard counter > 0 is missing
CcmData_decrement_counter_noguard(d) ==
    [d EXCEPT !.packet_counter =
        u64_to_le_bytes(U64SubOne(u64_from_le_bytes(d.packet_counter)))]

CcmData_decrement_counter(d) ==
    LET counter == u64_from_le_bytes(d.packet_counter)
    IN IF U64Less(U64Zero, counter)
       THEN [d EXCEPT !.packet_counter = u64_to_le_bytes(U64SubOne(counter))]
       ELSE d

(***************************************************************************)
(* Buffers.  A slice is its length, whether the residency predicate         *)
(* slice_in_ram accepts it, its leading bytes (the three header bytes S0,   *)
(* length, S1 are all the driver itself reads or writes), and its body:     *)
(* what the bytes after the header hold.  A body is zeroes, n bytes of      *)
(* data, n bytes of data encrypted under a nonce state and followed by the  *)
(* MIC, or n bytes that are the output of a failed decryption.              *)
(***************************************************************************)
NoNonce == CcmData_new("none", "none")

Body(kind, n, nonce) == [kind |-> kind, n |-> n, nonce |-> nonce]

ZeroBody == Body("zero", 0, NoNonce)

Data(n) == Body("data", n, NoNonce)

Slice(len, ram, hdr) ==
    [len |-> len, ram |-> ram, bytes |-> SubSeq(hdr, 1, Min(len, Len(hdr))),
     body |-> ZeroBody]

slice_in_ram(slice) == slice.ram

\* mutant: the S1 byte is not copied
CopyHeader_short(dst, src) ==
    [dst EXCEPT !.bytes = SubSeq(src.bytes, 1, HEADER_SIZE - 1)
                          \o SubSeq(dst.bytes, HEADER_SIZE, Len(dst.bytes))]

\* (&mut dst[..HEADER_SIZE]).copy_from_slice(&src[..HEADER_SIZE])
CopyHeader(dst, src) ==
    [dst EXCEPT !.bytes = SubSeq(src.bytes, 1, HEADER_SIZE)
                          \o SubSeq(dst.bytes, HEADER_SIZE + 1, Len(dst.bytes))]

\* packet[LENGTH_HEADER_INDEX] as usize
LengthField(packet) == packet.bytes[LENGTH_HEADER_INDEX + 1]

(***************************************************************************)
(* Device families (cargo features): "51" has the 5-bit length field only,  *)
(* "52832" has the extended length encoding, "52840" (and 52833, 52810)     *)
(* has it together with the MAXPACKETSIZE register.                         *)
(***************************************************************************)
Families == {"51", "52832", "52840"}
HasMaxPacketSize(fam) == fam = "52840"

(***************************************************************************)
(* The checks of encrypt_packet and decrypt_packet, in the order of the     *)
(* code.  EncryptSite / DecryptSite name the place where the validation     *)
(* ends: a rejecting check, a shortcut, or "engine" when the request goes   *)
(* on to the peripheral.                                                    *)
(***************************************************************************)
AllInRam(clear_pkt, cipher_pkt, scr) ==
    slice_in_ram(clear_pkt) /\ slice_in_ram(cipher_pkt) /\ slice_in_ram(scr)

HeaderMissing(clear_pkt, cipher_pkt) ==
    clear_pkt.len < HEADER_SIZE \/ cipher_pkt.len < HEADER_SIZE

\* mutant: the room for the MIC in the cipher packet is not required
EncLengthInvalid_nomic(clear_pkt, cipher_pkt, p) ==
    \/ clear_pkt.len < p + HEADER_SIZE
    \/ cipher_pkt.len < p + HEADER_SIZE
    \/ p + MIC_SIZE > U8_MAX

EncLengthInvalid(clear_pkt, cipher_pkt, p) ==
    \/ clear_pkt.len < p + HEADER_SIZE
    \/ cipher_pkt.len < p + HEADER_SIZE + MIC_SIZE
    \/ p + MIC_SIZE > U8_MAX

DecLengthInvalid(clear_pkt, cipher_pkt, p) ==
    \/ cipher_pkt.len < p + HEADER_SIZE
    \/ clear_pkt.len < p + HEADER_SIZE - MIC_SIZE

\* mutant: room for the MIC is added to the length field
ScratchTooSmall_plusmic(scr, p) ==
    scr.len < Max(p + MIC_SIZE + 16, MINIMUM_SCRATCH_AREA_SIZE)

\* mutant: off by one in the comparison
ScratchTooSmall_offbyone(scr, p) ==
    scr.len <= Max(p + 16, MINIMUM_SCRATCH_AREA_SIZE)

ScratchTooSmall(scr, p) ==
    scr.len < Max(p + 16, MINIMUM_SCRATCH_AREA_SIZE)

EncFamilyRejects(fam, p) ==
    fam = "51" /\ p > MAXIMUM_LENGTH_5BITS - MIC_SIZE

DecFamilyRejects(fam, p) ==
    fam = "51" /\ p > MAXIMUM_LENGTH_5BITS

EncLengthVariant(p) ==
    IF p <= MAXIMUM_LENGTH_5BITS - MIC_SIZE THEN "DEFAULT" ELSE "EXTENDED"

\* mutant: decrypt_packet takes the MIC off before comparing, as encrypt_packet
DecLengthVariant_sub_mic(p) ==
    IF p <= MAXIMUM_LENGTH_5BITS - MIC_SIZE THEN "DEFAULT" ELSE "EXTENDED"

DecLengthVariant(p) ==
    IF p <= MAXIMUM_LENGTH_5BITS THEN "DEFAULT" ELSE "EXTENDED"

\* mutant: the header check comes before the residency check
EncryptSite_lenfirst(fam, clear_pkt, cipher_pkt, scr) ==
    IF HeaderMissing(clear_pkt, cipher_pkt) THEN "header"
    ELSE IF ~AllInRam(clear_pkt, cipher_pkt, scr) THEN "ram"
    ELSE IF LengthField(clear_pkt) = 0 THEN "zero"
    ELSE IF EncLengthInvalid(clear_pkt, cipher_pkt, LengthField(clear_pkt)) THEN "length"
    ELSE IF ScratchTooSmall(scr, LengthField(clear_pkt)) THEN "scratch"
    ELSE IF EncFamilyRejects(fam, LengthField(clear_pkt)) THEN "family"
    ELSE "engine"

EncryptSite(fam, clear_pkt, cipher_pkt, scr) ==
    IF ~AllInRam(clear_pkt, cipher_pkt, scr) THEN "ram"
    ELSE IF HeaderMissing(clear_pkt, cipher_pkt) THEN "header"
    ELSE IF LengthField(clear_pkt) = 0 THEN "zero"
    ELSE IF EncLengthInvalid(clear_pkt, cipher_pkt, LengthField(clear_pkt)) THEN "length"
    ELSE IF ScratchTooSmall(scr, LengthField(clear_pkt)) THEN "scratch"
    ELSE IF EncFamilyRejects(fam, LengthField(clear_pkt)) THEN "family"
    ELSE "engine"

\* mutant: the buffer-length check comes before the short-packet shortcut
DecryptSite_lengthfirst(fam, clear_pkt, cipher_pkt, scr) ==
    IF ~AllInRam(clear_pkt, cipher_pkt, scr) THEN "ram"
    ELSE IF HeaderMissing(clear_pkt, cipher_pkt) THEN "header"
    ELSE IF LengthField(cipher_pkt) = 0 THEN "zero"
    ELSE IF cipher_pkt.len < LengthField(cipher_pkt) + HEADER_SIZE THEN "length"
    ELSE IF LengthField(cipher_pkt) < 5 THEN "short"
    ELSE IF DecLengthInvalid(clear_pkt, cipher_pkt, LengthField(cipher_pkt)) THEN "length"
    ELSE IF ScratchTooSmall(scr, LengthField(cipher_pkt)) THEN "scratch"
    ELSE IF DecFamilyRejects(fam, LengthField(cipher_pkt)) THEN "family"
    ELSE "engine"

DecryptSite(fam, clear_pkt, cipher_pkt, scr) ==
    IF ~AllInRam(clear_pkt, cipher_pkt, scr) THEN "ram"
    ELSE IF HeaderMissing(clear_pkt, cipher_pkt) THEN "header"
    ELSE IF LengthField(cipher_pkt) = 0 THEN "zero"
    ELSE IF LengthField(cipher_pkt) < 5 THEN "short"
    ELSE IF DecLengthInvalid(clear_pkt, cipher_pkt, LengthField(cipher_pkt)) THEN "length"
    ELSE IF ScratchTooSmall(scr, LengthField(cipher_pkt)) THEN "scratch"
    ELSE IF DecFamilyRejects(fam, LengthField(cipher_pkt)) THEN "family"
    ELSE "engine"

\* the value returned at each place where the validation ends
SiteResult(site_) ==
    CASE site_ = "ram" -> "BufferNotInRAM"
      [] site_ = "header" -> "WrongPacketLength"
      [] site_ = "zero" -> "Ok"
      [] site_ = "short" -> "InvalidMIC"
      [] site_ = "length" -> "WrongPacketLength"
      [] site_ = "scratch" -> "InsufficientScratchArea"
      [] site_ = "family" -> "WrongPacketLength"
      [] OTHER -> "none"

(***************************************************************************)
(* The CCM peripheral: its registers as the driver sees them, and the state *)
(* of the engine behind them.                                               *)
(***************************************************************************)
MicStatus == {"CheckFailed", "CheckPassed"}

DataRates(fam) == IF fam = "51" THEN {"_1Mbit"} ELSE {"_1Mbit", "_2Mbit"}

\* registers after reset
ResetRegs ==
    [enable |-> "disabled", aar_enable |-> "disabled",
     mode |-> [mode |-> "decryption", length |-> "DEFAULT", datarate |-> "_1Mbit"],
     maxpacketsize |-> 251,
     cnfptr |-> "unset", inptr |-> "unset", outptr |-> "unset", scratchptr |-> "unset",
     events_endksgen |-> 0, events_endcrypt |-> 0, events_error |-> 0,
     micstatus |-> "CheckFailed"]

\* Ccm::init: AAR disabled, interrupts disabled, engine stopped, data rate
\* written to MODE (not on the 51), peripheral enabled
Ccm_init(fam, data_rate) ==
    [ResetRegs EXCEPT
        !.aar_enable = "disabled",
        !.mode = IF fam = "51" THEN @
                 ELSE [mode |-> "decryption", length |-> "DEFAULT", datarate |-> data_rate],
        !.enable = "enabled"]

VARIABLES
    family,         \* device family the crate is built for
    ccm_data,       \* the caller's CcmData
    regs,           \* registers of the peripheral
    eng,            \* engine: "idle", "ksgen", "ready", "crypt"
    pc,             \* position of the driver call in progress, "idle" when none
    op,             \* the last operation called
    clear_packet,   \* arguments of the last driver call
    cipher_packet,
    scratch,
    payload_len,    \* local payload_len of the call (0 before it is read)
    site,           \* where the validation of the call ended
    result,         \* what the last operation returned, "none" while it runs
    old,            \* ccm_data and regs when the last operation was called
    trace,          \* register writes, loop-ending reads, final reads and counter
                    \* update of the call, in program order
    reads,          \* registers the call has read
    calls,          \* driver calls so far
    nonce_ops,      \* direct CcmData calls so far
    seed,           \* packet counter at the start of the behaviour
    n_ok            \* driver calls that ran the engine and returned Ok

vars == <<family, ccm_data, regs, eng, pc, op, clear_packet, cipher_packet, scratch,
          payload_len, site, result, old, trace, reads, calls, nonce_ops, seed, n_ok>>

args == <<clear_packet, cipher_packet, scratch, payload_len, site>>

NoSlice == Slice(0, TRUE, <<>>)

(***************************************************************************)
(* Initial states.  A CcmData starts at counter 0; the counters below are   *)
(* values that earlier successful operations lead to, chosen at the carries *)
(* of the byte representation and at the 39-bit maximum.                    *)
(***************************************************************************)
CounterSeeds ==
    { <<0, 0, 0, 0, 0, 0, 0, 0>>,
      <<1, 0, 0, 0, 0, 0, 0, 0>>,
      <<255, 0, 0, 0, 0, 0, 0, 0>>,
      <<0, 1, 0, 0, 0, 0, 0, 0>>,
      <<255, 255, 255, 0, 0, 0, 0, 0>>,
      <<0, 0, 0, 1, 0, 0, 0, 0>>,
      <<255, 255, 255, 255, 0, 0, 0, 0>>,
      <<254, 255, 255, 255, 127, 0, 0, 0>>,
      <<255, 255, 255, 255, 127, 0, 0, 0>> }

InitWith(counters, rates) ==
    /\ family \in Families
    /\ \E c \in counters :
         ccm_data = [CcmData_new("keyA", "ivA") EXCEPT !.packet_counter = c]
    /\ \E dr \in rates : dr \in DataRates(family) /\ regs = Ccm_init(family, dr)
    /\ eng = "idle"
    /\ pc = "idle"
    /\ op = "new"
    /\ clear_packet = NoSlice
    /\ cipher_packet = NoSlice
    /\ scratch = NoSlice
    /\ payload_len = 0
    /\ site = "none"
    /\ result = "none"
    /\ old = [data |-> ccm_data, regs |-> regs]
    /\ trace = <<>>
    /\ reads = {}
    /\ calls = 0
    /\ nonce_ops = 0
    /\ seed = ccm_data.packet_counter
    /\ n_ok = 0

\* counters of the call sequences: a fresh CcmData and one at the maximum
SeqCounters ==
    { <<0, 0, 0, 0, 0, 0, 0, 0>>,
      <<255, 255, 255, 255, 127, 0, 0, 0>> }

Init == InitWith(SeqCounters, {"_1Mbit"})

(***************************************************************************)
(* Direct calls on CcmData (only between driver calls: the driver holds     *)
(* the &mut CcmData for the whole of a call).                               *)
(***************************************************************************)
NonceOp(name, d) ==
    /\ pc = "idle"
    /\ nonce_ops < MaxNonceOps
    /\ nonce_ops' = nonce_ops + 1
    /\ op' = name
    /\ old' = [data |-> ccm_data, regs |-> regs]
    /\ ccm_data' = d
    /\ result' = "unit"
    /\ trace' = <<>>
    /\ reads' = {}
    /\ UNCHANGED <<family, regs, eng, pc, args, calls, seed, n_ok>>

set_key == \E k \in Keys : NonceOp("set_key", CcmData_set_key(ccm_data, k))

set_iv == \E v \in Ivs : NonceOp("set_iv", CcmData_set_iv(ccm_data, v))

set_direction ==
    \E b \in BOOLEAN : NonceOp("set_direction", CcmData_set_direction(ccm_data, b))

increment_counter ==
    NonceOp("increment_counter", CcmData_increment_counter(ccm_data))

decrement_counter ==
    NonceOp("decrement_counter", CcmData_decrement_counter(ccm_data))

(***************************************************************************)
(* Ccm::encrypt_packet and Ccm::decrypt_packet.  The first action of a call *)
(* runs the checks (no interaction with the peripheral); a call that passes *)
(* them goes on step by step, interleaved with the engine.                  *)
(***************************************************************************)
\* the call begins and its checks end at site_; len_field is the length field
\* of the header, once it has been read
BeginCall(name, scr, site_, len_field) ==
    /\ pc = "idle"
    /\ calls < MaxCalls
    /\ calls' = calls + 1
    /\ op' = name
    /\ old' = [data |-> ccm_data, regs |-> regs]
    /\ scratch' = scr
    /\ site' = site_
    /\ payload_len' = len_field
    /\ result' = SiteResult(site_)
    /\ pc' = IF site_ = "engine" THEN "program" ELSE "idle"
    /\ trace' = <<>>
    /\ reads' = {}
    /\ UNCHANGED <<family, ccm_data, regs, eng, nonce_ops, seed, n_ok>>

encrypt_packet(clear_pkt, cipher_pkt, scr) ==
    LET site_ == EncryptSite(family, clear_pkt, cipher_pkt, scr) IN
    /\ BeginCall("encrypt_packet", scr, site_,
                 IF site_ \in {"ram", "header"} THEN 0 ELSE LengthField(clear_pkt))
    /\ clear_packet' = clear_pkt
    /\ cipher_packet' = IF site_ = "zero" THEN CopyHeader(cipher_pkt, clear_pkt)
                        ELSE cipher_pkt

\* mutant: the mode is written before the checks
decrypt_packet_early_write(clear_pkt, cipher_pkt, scr) ==
    LET site_ == DecryptSite(family, clear_pkt, cipher_pkt, scr) IN
    /\ pc = "idle"
    /\ calls < MaxCalls
    /\ calls' = calls + 1
    /\ op' = "decrypt_packet"
    /\ old' = [data |-> ccm_data, regs |-> regs]
    /\ scratch' = scr
    /\ site' = site_
    /\ payload_len' = IF site_ \in {"ram", "header"} THEN 0 ELSE LengthField(cipher_pkt)
    /\ result' = SiteResult(site_)
    /\ pc' = IF site_ = "engine" THEN "program" ELSE "idle"
    /\ trace' = <<"mode">>
    /\ reads' = {}
    /\ cipher_packet' = cipher_pkt
    /\ clear_packet' = IF site_ = "zero" THEN CopyHeader(clear_pkt, cipher_pkt)
                       ELSE clear_pkt
    /\ regs' = [regs EXCEPT !.mode.mode = "decryption"]
    /\ UNCHANGED <<family, ccm_data, eng, nonce_ops, seed, n_ok>>

decrypt_packet(clear_pkt, cipher_pkt, scr) ==
    LET site_ == DecryptSite(family, clear_pkt, cipher_pkt, scr) IN
    /\ BeginCall("decrypt_packet", scr, site_,
                 IF site_ \in {"ram", "header"} THEN 0 ELSE LengthField(cipher_pkt))
    /\ cipher_packet' = cipher_pkt
    /\ clear_packet' = IF site_ = "zero" THEN CopyHeader(clear_pkt, cipher_pkt)
                       ELSE clear_pkt

\* MAXPACKETSIZE (where the family has it and the encoding is extended), MODE
\* and the four pointers
Programmed(r, fam, mode_, variant, p, inp, outp) ==
    [r EXCEPT
        !.maxpacketsize = IF HasMaxPacketSize(fam) /\ variant = "EXTENDED"
                          THEN p % 256 ELSE @,
        !.mode = IF fam = "51"
                 THEN [mode |-> mode_, length |-> "DEFAULT", datarate |-> "_1Mbit"]
                 ELSE [@ EXCEPT !.mode = mode_, !.length = variant],
        !.cnfptr = "ccm_data",
        !.inptr = inp,
        !.outptr = outp,
        !.scratchptr = "scratch"]

ProgramTrace(fam, variant) ==
    (IF HasMaxPacketSize(fam) /\ variant = "EXTENDED" THEN <<"maxpacketsize">> ELSE <<>>)
    \o <<"mode", "cnfptr", "inptr", "outptr", "scratchptr">>

\* mutant: the output pointer is set to the input packet
EncProgram_in_place ==
    /\ pc = "program"
    /\ op = "encrypt_packet"
    /\ regs' = Programmed(regs, family, "encryption", EncLengthVariant(payload_len),
                          payload_len, "clear_packet", "clear_packet")
    /\ trace' = trace \o ProgramTrace(family, EncLengthVariant(payload_len))
    /\ pc' = "clear_events"
    /\ UNCHANGED <<family, ccm_data, eng, op, args, result, old, reads, calls,
                   nonce_ops, seed, n_ok>>

EncProgram ==
    /\ pc = "program"
    /\ op = "encrypt_packet"
    /\ regs' = Programmed(regs, family, "encryption", EncLengthVariant(payload_len),
                          payload_len, "clear_packet", "cipher_packet")
    /\ trace' = trace \o ProgramTrace(family, EncLengthVariant(payload_len))
    /\ pc' = "clear_events"
    /\ UNCHANGED <<family, ccm_data, eng, op, args, result, old, reads, calls,
                   nonce_ops, seed, n_ok>>

\* mutant: decrypt_packet selects the encryption mode
DecProgram_encrypts ==
    /\ pc = "program"
    /\ op = "decrypt_packet"
    /\ regs' = Programmed(regs, family, "encryption", DecLengthVariant(payload_len),
                          payload_len, "cipher_packet", "clear_packet")
    /\ trace' = trace \o ProgramTrace(family, DecLengthVariant(payload_len))
    /\ pc' = "clear_events"
    /\ UNCHANGED <<family, ccm_data, eng, op, args, result, old, reads, calls,
                   nonce_ops, seed, n_ok>>

DecProgram ==
    /\ pc = "program"
    /\ op = "decrypt_packet"
    /\ regs' = Programmed(regs, family, "decryption", DecLengthVariant(payload_len),
                          payload_len, "cipher_packet", "clear_packet")
    /\ trace' = trace \o ProgramTrace(family, DecLengthVariant(payload_len))
    /\ pc' = "clear_events"
    /\ UNCHANGED <<family, ccm_data, eng, op, args, result, old, reads, calls,
                   nonce_ops, seed, n_ok>>

\* mutant: the error event is not reset
ClearEvents_keeps_error ==
    /\ pc = "clear_events"
    /\ regs' = [regs EXCEPT !.events_endcrypt = 0, !.events_endksgen = 0]
    /\ trace' = trace \o <<"events_endcrypt", "events_error", "events_endksgen">>
    /\ pc' = "start_ksgen"
    /\ UNCHANGED <<family, ccm_data, eng, op, args, result, old, reads, calls,
                   nonce_ops, seed, n_ok>>

\* events_endcrypt.reset(); events_error.reset(); events_endksgen.reset()
ClearEvents ==
    /\ pc = "clear_events"
    /\ regs' = [regs EXCEPT !.events_endcrypt = 0, !.events_error = 0,
                            !.events_endksgen = 0]
    /\ trace' = trace \o <<"events_endcrypt", "events_error", "events_endksgen">>
    /\ pc' = "start_ksgen"
    /\ UNCHANGED <<family, ccm_data, eng, op, args, result, old, reads, calls,
                   nonce_ops, seed, n_ok>>

\* tasks_ksgen.write(1)
StartKsgen ==
    /\ pc = "start_ksgen"
    /\ eng' = "ksgen"
    /\ trace' = trace \o <<"tasks_ksgen">>
    /\ pc' = "wait_ksgen"
    /\ UNCHANGED <<family, ccm_data, regs, op, args, result, old, reads, calls,
                   nonce_ops, seed, n_ok>>

\* mutant: the key-stream wait is left after one read, whatever it returned
WaitKsgen_one_read ==
    /\ pc = "wait_ksgen"
    /\ reads' = reads \cup {"events_endksgen"}
    /\ pc' = "start_crypt"
    /\ trace' = IF regs.events_endksgen = 0 THEN trace
                ELSE trace \o <<"seen_endksgen">>
    /\ UNCHANGED <<family, ccm_data, regs, eng, op, args, result, old, calls,
                   nonce_ops, seed, n_ok>>

\* while events_endksgen.read().bits() == 0 {}
WaitKsgen ==
    /\ pc = "wait_ksgen"
    /\ reads' = reads \cup {"events_endksgen"}
    /\ pc' = IF regs.events_endksgen = 0 THEN "wait_ksgen" ELSE "start_crypt"
    /\ trace' = IF regs.events_endksgen = 0 THEN trace
                ELSE trace \o <<"seen_endksgen">>
    /\ UNCHANGED <<family, ccm_data, regs, eng, op, args, result, old, calls,
                   nonce_ops, seed, n_ok>>

\* tasks_crypt.write(1)
StartCrypt ==
    /\ pc = "start_crypt"
    /\ eng' = "crypt"
    /\ trace' = trace \o <<"tasks_crypt">>
    /\ pc' = "poll_endcrypt"
    /\ UNCHANGED <<family, ccm_data, regs, op, args, result, old, reads, calls,
                   nonce_ops, seed, n_ok>>

\* mutant: the loop condition is a disjunction (|| for &&)
PollEndcrypt_or ==
    /\ pc = "poll_endcrypt"
    /\ reads' = reads \cup {"events_endcrypt"}
    /\ pc' = IF regs.events_endcrypt = 0 THEN "poll_endcrypt" ELSE "poll_error"
    /\ UNCHANGED <<family, ccm_data, regs, eng, op, args, result, old, trace, calls,
                   nonce_ops, seed, n_ok>>

\* while events_endcrypt.read().bits() == 0 && ... : the left operand
PollEndcrypt ==
    /\ pc = "poll_endcrypt"
    /\ reads' = reads \cup {"events_endcrypt"}
    /\ pc' = IF regs.events_endcrypt = 0 THEN "poll_error" ELSE "check_error"
    /\ trace' = IF regs.events_endcrypt = 0 THEN trace
                ELSE trace \o <<"seen_endcrypt">>
    /\ UNCHANGED <<family, ccm_data, regs, eng, op, args, result, old, calls,
                   nonce_ops, seed, n_ok>>

\* ... && events_error.read().bits() == 0 {} : the right operand
PollError ==
    /\ pc = "poll_error"
    /\ reads' = reads \cup {"events_error"}
    /\ pc' = IF regs.events_error = 0 THEN "poll_endcrypt" ELSE "check_error"
    /\ trace' = IF regs.events_error = 0 THEN trace
                ELSE trace \o <<"seen_error">>
    /\ UNCHANGED <<family, ccm_data, regs, eng, op, args, result, old, calls,
                   nonce_ops, seed, n_ok>>

\* mutant: the counter is incremented before the error event is looked at
EncFinish_increment_always ==
    /\ pc = "check_error"
    /\ op = "encrypt_packet"
    /\ reads' = reads \cup {"events_error"}
    /\ pc' = "idle"
    /\ ccm_data' = CcmData_increment_counter(ccm_data)
    /\ IF regs.events_error = 1
       THEN /\ result' = "EasyDMAError"
            /\ trace' = trace \o <<"read_events_error", "increment_counter">>
            /\ n_ok' = n_ok
       ELSE /\ result' = "Ok"
            /\ trace' = trace \o <<"read_events_error", "increment_counter">>
            /\ n_ok' = n_ok + 1
    /\ UNCHANGED <<family, regs, eng, op, args, old, calls, nonce_ops, seed>>

\* mutant: encrypt_packet checks the MIC status as decrypt_packet does
EncFinish_checks_mic ==
    /\ pc = "check_error"
    /\ op = "encrypt_packet"
    /\ pc' = "idle"
    /\ IF regs.events_error = 1
       THEN /\ result' = "EasyDMAError"
            /\ reads' = reads \cup {"events_error"}
            /\ trace' = trace \o <<"read_events_error">>
            /\ UNCHANGED <<ccm_data, n_ok>>
       ELSE IF regs.micstatus = "CheckFailed"
       THEN /\ result' = "InvalidMIC"
            /\ reads' = reads \cup {"events_error", "micstatus"}
            /\ trace' = trace \o <<"read_events_error", "read_micstatus">>
            /\ UNCHANGED <<ccm_data, n_ok>>
       ELSE /\ result' = "Ok"
            /\ reads' = reads \cup {"events_error", "micstatus"}
            /\ ccm_data' = CcmData_increment_counter(ccm_data)
            /\ trace' = trace \o <<"read_events_error", "read_micstatus",
                                   "increment_counter">>
            /\ n_ok' = n_ok + 1
    /\ UNCHANGED <<family, regs, eng, op, args, old, calls, nonce_ops, seed>>

\* mutant: the outcome is what ended the poll loop; the error event is not
\* read again
EncFinish_first_wins ==
    /\ pc = "check_error"
    /\ op = "encrypt_packet"
    /\ pc' = "idle"
    /\ reads' = reads
    /\ IF \E i \in 1..Len(trace) : trace[i] = "seen_error"
       THEN /\ result' = "EasyDMAError"
            /\ trace' = trace \o <<"read_events_error">>
            /\ UNCHANGED <<ccm_data, n_ok>>
       ELSE /\ result' = "Ok"
            /\ ccm_data' = CcmData_increment_counter(ccm_data)
            /\ trace' = trace \o <<"read_events_error", "increment_counter">>
            /\ n_ok' = n_ok + 1
    /\ UNCHANGED <<family, regs, eng, op, args, old, calls, nonce_ops, seed>>

\* if events_error == 1 { return Err(EasyDMAError) }; increment_counter(); Ok(())
EncFinish ==
    /\ pc = "check_error"
    /\ op = "encrypt_packet"
    /\ reads' = reads \cup {"events_error"}
    /\ pc' = "idle"
    /\ IF regs.events_error = 1
       THEN /\ result' = "EasyDMAError"
            /\ trace' = trace \o <<"read_events_error">>
            /\ UNCHANGED <<ccm_data, n_ok>>
       ELSE /\ result' = "Ok"
            /\ ccm_data' = CcmData_increment_counter(ccm_data)
            /\ trace' = trace \o <<"read_events_error", "increment_counter">>
            /\ n_ok' = n_ok + 1
    /\ UNCHANGED <<family, regs, eng, op, args, old, calls, nonce_ops, seed>>

\* mutant: the MIC status is looked at before the error event
DecCheckError_mic_first ==
    /\ pc = "check_error"
    /\ op = "decrypt_packet"
    /\ IF regs.micstatus = "CheckFailed"
       THEN /\ reads' = reads \cup {"micstatus"}
            /\ trace' = trace \o <<"read_micstatus">>
            /\ result' = "InvalidMIC"
            /\ pc' = "idle"
       ELSE /\ reads' = reads \cup {"micstatus", "events_error"}
            /\ trace' = trace \o <<"read_micstatus", "read_events_error">>
            /\ IF regs.events_error = 1
               THEN result' = "EasyDMAError" /\ pc' = "idle"
               ELSE result' = result /\ pc' = "check_mic"
    /\ UNCHANGED <<family, ccm_data, regs, eng, op, args, old, calls, nonce_ops,
                   seed, n_ok>>

\* if events_error == 1 { return Err(EasyDMAError) }
DecCheckError ==
    /\ pc = "check_error"
    /\ op = "decrypt_packet"
    /\ reads' = reads \cup {"events_error"}
    /\ trace' = trace \o <<"read_events_error">>
    /\ IF regs.events_error = 1
       THEN result' = "EasyDMAError" /\ pc' = "idle"
       ELSE result' = result /\ pc' = "check_mic"
    /\ UNCHANGED <<family, ccm_data, regs, eng, op, args, old, calls, nonce_ops,
                   seed, n_ok>>

\* if micstatus.is_check_failed() { return Err(InvalidMIC) }; increment_counter(); Ok(())
DecFinish ==
    /\ pc = "check_mic"
    /\ reads' = reads \cup {"micstatus"}
    /\ pc' = "idle"
    /\ IF regs.micstatus = "CheckFailed"
       THEN /\ result' = "InvalidMIC"
            /\ trace' = trace \o <<"read_micstatus">>
            /\ UNCHANGED <<ccm_data, n_ok>>
       ELSE /\ result' = "Ok"
            /\ ccm_data' = CcmData_increment_counter(ccm_data)
            /\ trace' = trace \o <<"read_micstatus", "increment_counter">>
            /\ n_ok' = n_ok + 1
    /\ UNCHANGED <<family, regs, eng, op, args, old, calls, nonce_ops, seed>>

(***************************************************************************)
(* The engine: ENDKSGEN after the key-stream generation, then ENDCRYPT      *)
(* (with the output packet written, and the MIC status of a decryption) or  *)
(* ERROR after the crypt task.  A decryption of what the engine encrypted   *)
(* under the same nonce state passes the MIC check and gives back the data; *)
(* of anything else the MIC check may fail or pass.  ERROR may also follow  *)
(* the ENDCRYPT of the same operation while the call that started it is     *)
(* running (from the return of the call to the clearing of the events in    *)
(* the next call, no code reads the events).                                *)
(***************************************************************************)
EngineEndKsgen ==
    /\ eng = "ksgen"
    /\ eng' = "ready"
    /\ regs' = [regs EXCEPT !.events_endksgen = 1]
    /\ UNCHANGED <<family, ccm_data, pc, op, args, result, old, trace, reads, calls,
                   nonce_ops, seed, n_ok>>

\* the packet written at OUTPTR: the header of the input with the length
\* field raised (encryption) or lowered (decryption) by the MIC size, and the
\* payload encrypted with the MIC appended, or decrypted
EngineOutput(inb, outb, nonce, mode_, mic) ==
    LET len_field == inb.bytes[LENGTH_HEADER_INDEX + 1]
        out_field == IF mode_ = "encryption" THEN (len_field + MIC_SIZE) % 256
                     ELSE Max(len_field - MIC_SIZE, 0)
    IN IF Len(inb.bytes) < HEADER_SIZE \/ Len(outb.bytes) < HEADER_SIZE THEN outb
       ELSE [outb EXCEPT
               !.bytes = <<inb.bytes[1], out_field, inb.bytes[HEADER_SIZE]>>,
               !.body = IF mode_ = "encryption" THEN Body("cipher", len_field, nonce)
                        ELSE IF mic = "CheckPassed" THEN Data(out_field)
                        ELSE Body("garbage", out_field, NoNonce)]

\* the input is what the engine wrote when it encrypted under this nonce state
Authentic(inb, nonce) ==
    /\ Len(inb.bytes) = HEADER_SIZE
    /\ inb.body = Body("cipher", inb.bytes[LENGTH_HEADER_INDEX + 1] - MIC_SIZE, nonce)

EngineEndCrypt ==
    /\ eng = "crypt"
    /\ eng' = "idle"
    /\ LET inb == IF regs.inptr = "clear_packet" THEN clear_packet ELSE cipher_packet
           outb == IF regs.outptr = "clear_packet" THEN clear_packet
                   ELSE cipher_packet
           mics == IF regs.mode.mode = "encryption" THEN {regs.micstatus}
                   ELSE IF Authentic(inb, ccm_data) THEN {"CheckPassed"}
                   ELSE MicStatus
       IN \E m \in mics :
            LET written == EngineOutput(inb, outb, ccm_data, regs.mode.mode, m) IN
            /\ regs' = [regs EXCEPT !.events_endcrypt = 1, !.micstatus = m]
            /\ clear_packet' = IF regs.outptr = "clear_packet" THEN written
                               ELSE clear_packet
            /\ cipher_packet' = IF regs.outptr = "cipher_packet" THEN written
                                ELSE cipher_packet
    /\ UNCHANGED <<family, ccm_data, pc, op, scratch, payload_len, site, result, old,
                   trace, reads, calls, nonce_ops, seed, n_ok>>

EngineError ==
    /\ eng = "crypt"
    /\ eng' = "idle"
    /\ regs' = [regs EXCEPT !.events_error = 1]
    /\ UNCHANGED <<family, ccm_data, pc, op, args, result, old, trace, reads, calls,
                   nonce_ops, seed, n_ok>>

EngineLateError ==
    /\ pc \notin {"idle", "program", "clear_events"}
    /\ eng = "idle"
    /\ regs.events_endcrypt = 1
    /\ regs.events_error = 0
    /\ regs' = [regs EXCEPT !.events_error = 1]
    /\ UNCHANGED <<family, ccm_data, eng, pc, op, args, result, old, trace, reads,
                   calls, nonce_ops, seed, n_ok>>

(***************************************************************************)
(* Requests.  The input packet (cleartext for encrypt_packet, ciphertext    *)
(* for decrypt_packet) carries the header S0, length field, S1 and data;    *)
(* the output packet starts zeroed.  S0 is 165 and S1 is 90 in every        *)
(* request.                                                                 *)
(***************************************************************************)
Request(p, il, ol, sl, ir, or, sr) ==
    [inp |-> [Slice(il, ir, <<165, p, 90>>) EXCEPT !.body = Data(p)],
     out |-> Slice(ol, or, <<0, 0, 0>>),
     scr |-> Slice(sl, sr, <<>>)]

\* requests of the call sequences: one or two for every way a call can end
SeqRequests ==
    { Request(5, 8, 12, 43, TRUE, TRUE, TRUE),
      Request(34, 37, 41, 50, TRUE, TRUE, TRUE),
      Request(0, 3, 3, 0, TRUE, TRUE, TRUE),
      Request(3, 6, 6, 43, TRUE, TRUE, TRUE),
      Request(5, 8, 12, 43, TRUE, TRUE, FALSE),
      Request(5, 7, 12, 43, TRUE, TRUE, TRUE),
      Request(30, 33, 37, 42, TRUE, TRUE, TRUE) }

\* requests of the validation sweep: length fields around every threshold of
\* the checks, and for each of them buffer lengths on both sides of what the
\* checks require
PayloadLens == {0, 1, 4, 5, 27, 28, 30, 31, 32, 34, 251, 252, 255}
InLens(p) == {2, 3, p + 2, p + 3, 262}
OutLens(p) == {n \in {2, 3, p - 2, p - 1, p + 3, p + 6, p + 7, 262} : n >= 0}
ScratchLens(p) == {n \in {0, 42, 43, p + 11, p + 12, p + 15, p + 16, 300} : n >= 0}

Encrypt == \E r \in SeqRequests : encrypt_packet(r.inp, r.out, r.scr)

Decrypt == \E r \in SeqRequests : decrypt_packet(r.out, r.inp, r.scr)

SweepEncrypt ==
    \E p \in PayloadLens :
      \E il \in InLens(p), ol \in OutLens(p), sl \in ScratchLens(p),
         ir \in BOOLEAN, or \in BOOLEAN, sr \in BOOLEAN :
        LET r == Request(p, il, ol, sl, ir, or, sr)
        IN encrypt_packet(r.inp, r.out, r.scr)

SweepDecrypt ==
    \E p \in PayloadLens :
      \E il \in InLens(p), ol \in OutLens(p), sl \in ScratchLens(p),
         ir \in BOOLEAN, or \in BOOLEAN, sr \in BOOLEAN :
        LET r == Request(p, il, ol, sl, ir, or, sr)
        IN decrypt_packet(r.out, r.inp, r.scr)

\* the steps of a call that has reached the peripheral, and of the engine
Protocol ==
    \/ EncProgram
    \/ DecProgram
    \/ ClearEvents
    \/ StartKsgen
    \/ WaitKsgen
    \/ StartCrypt
    \/ PollEndcrypt
    \/ PollError
    \/ EncFinish
    \/ DecCheckError
    \/ DecFinish
    \/ EngineEndKsgen
    \/ EngineEndCrypt
    \/ EngineError
    \/ EngineLateError

(***************************************************************************)
(* Spec: sequences of driver calls and CcmData calls on one CcmData.        *)
(***************************************************************************)
Next ==
    \/ set_key
    \/ set_iv
    \/ set_direction
    \/ increment_counter
    \/ decrement_counter
    \/ Encrypt
    \/ Decrypt
    \/ Protocol

Spec == Init /\ [][Next]_vars

(***************************************************************************)
(* SpecNonce: CcmData calls alone, from every counter of CounterSeeds.      *)
(***************************************************************************)
InitNonce == InitWith(CounterSeeds, {"_1Mbit", "_2Mbit"})

NextNonce ==
    \/ set_key
    \/ set_iv
    \/ set_direction
    \/ increment_counter
    \/ decrement_counter

SpecNonce == InitNonce /\ [][NextNonce]_vars

(***************************************************************************)
(* SpecValidation: one driver call on a fresh CcmData, its arguments swept  *)
(* over PayloadLens, InLens, OutLens, ScratchLens and the residency of each *)
(* buffer.                                                                  *)
(***************************************************************************)
InitValidation == InitWith({<<0, 0, 0, 0, 0, 0, 0, 0>>}, {"_1Mbit", "_2Mbit"})

NextValidation ==
    \/ calls = 0 /\ SweepEncrypt
    \/ calls = 0 /\ SweepDecrypt
    \/ Protocol

SpecValidation == InitValidation /\ [][NextValidation]_vars

(***************************************************************************)
(* SpecRoundTrip: one encrypt_packet of a well-formed cleartext packet,     *)
(* then (after no CcmData call, or after one, such as the decrement_counter *)
(* that puts the counter back) one decrypt_packet of the ciphertext packet  *)
(* it has written when it returned Ok, into a fresh cleartext buffer.       *)
(***************************************************************************)
RoundTripLens == {0, 1, 23, 24, 27, 28, 251}

EncryptWellFormed ==
    /\ calls = 0
    /\ \E p \in RoundTripLens :
         LET r == Request(p, p + 3, p + 7, Max(p + 20, 43), TRUE, TRUE, TRUE)
         IN encrypt_packet(r.inp, r.out, r.scr)

DecryptCiphertext ==
    /\ calls = 1
    /\ n_ok = 1 \/ site = "zero"
    /\ decrypt_packet(Slice(cipher_packet.len - 4, TRUE, <<0, 0, 0>>),
                      cipher_packet, scratch)

NextRoundTrip ==
    \/ EncryptWellFormed
    \/ set_key
    \/ increment_counter
    \/ decrement_counter
    \/ DecryptCiphertext
    \/ Protocol

SpecRoundTrip == Init /\ [][NextRoundTrip]_vars

(***************************************************************************)
(* SpecCalls: sequences of driver calls alone, each interleaved with the    *)
(* engine.  SpecFair: the same with a running driver and a fair engine: a   *)
(* call in progress takes its next step, the engine raises ENDKSGEN after   *)
(* TASKS_KSGEN, and ENDCRYPT or ERROR after TASKS_CRYPT.                    *)
(***************************************************************************)
DriverStep ==
    \/ EncProgram
    \/ DecProgram
    \/ ClearEvents
    \/ StartKsgen
    \/ WaitKsgen
    \/ StartCrypt
    \/ PollEndcrypt
    \/ PollError
    \/ EncFinish
    \/ DecCheckError
    \/ DecFinish

EngineStep ==
    \/ EngineEndKsgen
    \/ EngineEndCrypt
    \/ EngineError

NextCalls ==
    \/ Encrypt
    \/ Decrypt
    \/ DriverStep
    \/ EngineStep
    \/ EngineLateError

SpecCalls == Init /\ [][NextCalls]_vars

SpecFair ==
    /\ Init
    /\ [][NextCalls]_vars
    /\ WF_vars(DriverStep)
    /\ WF_vars(EngineStep)

(***************************************************************************)
(* Properties.  They are stated on the arguments and the outcome of the     *)
(* last operation, with the numbers of the specification written out, and   *)
(* with the counter read byte by byte.                                      *)
(***************************************************************************)
DriverOps == {"encrypt_packet", "decrypt_packet"}

\* the last operation was the driver call name, and it has returned
Returned(name) == pc = "idle" /\ op = name

DriverReturned == pc = "idle" /\ op \in DriverOps

ZeroBytes == <<0, 0, 0, 0, 0, 0, 0, 0>>

\* 2^39 - 1, little-endian
MaxBytes == <<255, 255, 255, 255, 127, 0, 0, 0>>

\* b is a + 1, as 8-byte little-endian numbers
IsSuccessor(a, b) ==
    \E k \in 1..8 :
      /\ a[k] < 255
      /\ b[k] = a[k] + 1
      /\ \A j \in 1..8 : j < k => a[j] = 255 /\ b[j] = 0
      /\ \A j \in 1..8 : j > k => b[j] = a[j]

\* a <= 2^39 - 1
In39(a) == a[5] <= 127 /\ a[6] = 0 /\ a[7] = 0 /\ a[8] = 0

\* b is (a + 1) mod 2^39, for a <= 2^39 - 1
IsNext39(a, b) == IF a = MaxBytes THEN b = ZeroBytes ELSE IsSuccessor(a, b)

\* (a + 1) mod 2^39 and (a + n) mod 2^39, for a <= 2^39 - 1
Next39(a) ==
    IF a = MaxBytes THEN ZeroBytes
    ELSE LET k == CHOOSE i \in 1..8 : a[i] < 255 /\ \A j \in 1..8 : j < i => a[j] = 255
         IN [j \in 1..8 |-> IF j < k THEN 0 ELSE IF j = k THEN a[j] + 1 ELSE a[j]]

RECURSIVE Plus39(_, _)
Plus39(a, n) == IF n = 0 THEN a ELSE Plus39(Next39(a), n - 1)

Wrote(r) == \E i \in 1..Len(trace) : trace[i] = r

NoEngineAccess == trace = <<>> /\ reads = {} /\ regs = old.regs

BuffersInRam == clear_packet.ram /\ cipher_packet.ram /\ scratch.ram

HeadersPresent == clear_packet.len >= 3 /\ cipher_packet.len >= 3

\* C1: the counter after a driver call is (old counter + 1) mod 2^39 if the
\* call ran the engine and returned Ok, and the old counter in every other
\* case; it does not change while the call runs; and over a sequence of
\* driver calls on one CcmData it is the starting counter plus the number of
\* engine-completed successful calls, mod 2^39.
C1_CounterCountsEngineSuccesses ==
    /\ (op \in DriverOps /\ pc # "idle") => ccm_data = old.data
    /\ DriverReturned =>
         /\ result \in {"Ok", "BufferNotInRAM", "WrongPacketLength",
                        "InsufficientScratchArea", "EasyDMAError", "InvalidMIC"}
         /\ IF result = "Ok" /\ Wrote("tasks_crypt")
            THEN IsNext39(old.data.packet_counter, ccm_data.packet_counter)
            ELSE ccm_data.packet_counter = old.data.packet_counter
    /\ nonce_ops = 0 => ccm_data.packet_counter = Plus39(seed, n_ok)

\* C1 witness: two engine-completed successes from the maximum: 2^39 - 1, 0, 1
C1_Witness ==
    /\ DriverReturned
    /\ result = "Ok"
    /\ Wrote("tasks_crypt")
    /\ nonce_ops = 0
    /\ seed = MaxBytes
    /\ n_ok = 2
    /\ old.data.packet_counter = ZeroBytes
    /\ ccm_data.packet_counter = <<1, 0, 0, 0, 0, 0, 0, 0>>

\* a call rejected before the peripheral: the three pre-flight errors, and
\* InvalidMIC through the shortcut for length fields 1..4
RejectedLocally ==
    \/ result \in {"BufferNotInRAM", "WrongPacketLength", "InsufficientScratchArea"}
    \/ op = "decrypt_packet" /\ result = "InvalidMIC" /\ payload_len \in 1..4

\* C2: a call that returns BufferNotInRAM, WrongPacketLength or
\* InsufficientScratchArea, or InvalidMIC through the shortcut, has written no
\* register, triggered no task and left every field of the CcmData unchanged.
C2_RejectionTouchesNothing ==
    (DriverReturned /\ RejectedLocally) =>
        /\ trace = <<>>
        /\ regs = old.regs
        /\ eng = "idle"
        /\ ccm_data = old.data

\* C2 witness: the last check before the peripheral, the length limit of the
\* 51, rejects a request that passed every other check
C2_Witness ==
    /\ Returned("encrypt_packet")
    /\ family = "51"
    /\ BuffersInRam
    /\ payload_len = 28
    /\ clear_packet.len >= 31
    /\ cipher_packet.len >= 35
    /\ scratch.len >= 44
    /\ result = "WrongPacketLength"
    /\ trace = <<>>

\* C3: if one of the three buffers is not addressable the result is
\* BufferNotInRAM, whatever the lengths and the length field are.
C3_ResidencyFirst ==
    (DriverReturned /\ ~BuffersInRam) => result = "BufferNotInRAM"

\* C3 witness: only the scratch is outside RAM, and the packets are too short
\* for a header
C3_Witness ==
    /\ Returned("encrypt_packet")
    /\ clear_packet.ram
    /\ cipher_packet.ram
    /\ ~scratch.ram
    /\ clear_packet.len = 2
    /\ cipher_packet.len = 2
    /\ result = "BufferNotInRAM"

\* C4: with addressable buffers of at least 3 bytes and a length field of 0
\* in the input header, the call returns Ok, the first 3 bytes of the output
\* are those of the input, the counter is unchanged and no register is
\* written or read, for any scratch length.
C4_ZeroPayloadShortcut ==
    /\ (Returned("encrypt_packet") /\ BuffersInRam /\ HeadersPresent
          /\ clear_packet.bytes[2] = 0) =>
         /\ result = "Ok"
         /\ SubSeq(cipher_packet.bytes, 1, 3) = SubSeq(clear_packet.bytes, 1, 3)
         /\ ccm_data = old.data
         /\ NoEngineAccess
    /\ (Returned("decrypt_packet") /\ BuffersInRam /\ HeadersPresent
          /\ cipher_packet.bytes[2] = 0) =>
         /\ result = "Ok"
         /\ SubSeq(clear_packet.bytes, 1, 3) = SubSeq(cipher_packet.bytes, 1, 3)
         /\ ccm_data = old.data
         /\ NoEngineAccess

\* C4 witness: a zero-payload encrypt with an empty scratch
C4_Witness ==
    /\ Returned("encrypt_packet")
    /\ BuffersInRam
    /\ clear_packet.bytes = <<165, 0, 90>>
    /\ cipher_packet.bytes = <<165, 0, 90>>
    /\ scratch.len = 0
    /\ result = "Ok"

\* C5: decrypt_packet with addressable buffers of at least 3 bytes and a
\* ciphertext length field in 1..4 returns InvalidMIC, with the peripheral
\* untouched and the counter unchanged, whatever the buffer lengths and the
\* scratch length are.
C5_ShortCipherIsInvalidMic ==
    (Returned("decrypt_packet") /\ BuffersInRam /\ HeadersPresent
       /\ cipher_packet.bytes[2] \in 1..4) =>
        /\ result = "InvalidMIC"
        /\ NoEngineAccess
        /\ eng = "idle"
        /\ ccm_data = old.data

\* C5 witness: length field 4 in a ciphertext of 3 bytes, with an empty scratch
C5_Witness ==
    /\ Returned("decrypt_packet")
    /\ BuffersInRam
    /\ clear_packet.len = 3
    /\ cipher_packet.len = 3
    /\ cipher_packet.bytes[2] = 4
    /\ scratch.len = 0
    /\ result = "InvalidMIC"

\* the three conditions of the length validation of encrypt_packet, for the
\* cleartext length field p
EncLengthsBad(p) ==
    \/ clear_packet.len < 3 + p
    \/ cipher_packet.len < 3 + p + 4
    \/ p + 4 > 255

\* C6: in encrypt_packet with addressable buffers of at least 3 bytes and a
\* length field p >= 1, the length validation rejects the request, with
\* WrongPacketLength, if and only if cleartext length < 3 + p, or ciphertext
\* length < 3 + p + 4, or p + 4 > 255.  A request that passes it is rejected
\* with WrongPacketLength by nothing but the length limit of the 51 (p > 27).
C6_EncryptLengthValidation ==
    (Returned("encrypt_packet") /\ BuffersInRam /\ HeadersPresent
       /\ clear_packet.bytes[2] >= 1) =>
        LET p == clear_packet.bytes[2] IN
        /\ site = "length" <=> EncLengthsBad(p)
        /\ EncLengthsBad(p) => result = "WrongPacketLength"
        /\ (~EncLengthsBad(p) /\ result = "WrongPacketLength") =>
               family = "51" /\ p > 27
        /\ p \in 252..255 => result = "WrongPacketLength"
        /\ (p = 251 /\ clear_packet.len >= 254 /\ cipher_packet.len = 257) =>
               result = "WrongPacketLength"
        /\ (p = 251 /\ clear_packet.len >= 254 /\ cipher_packet.len = 258
              /\ family # "51") =>
               result # "WrongPacketLength"

\* C6 witness: p = 251 with a ciphertext buffer of 3 + 251 + 4 bytes passes the
\* validation and the call completes
C6_Witness ==
    /\ Returned("encrypt_packet")
    /\ BuffersInRam
    /\ clear_packet.bytes = <<165, 251, 90>>
    /\ clear_packet.len = 254
    /\ cipher_packet.len = 258
    /\ site # "length"
    /\ result = "Ok"

\* the request passed the residency check and the buffer-length checks, with
\* length field L >= 1 (encrypt) or L >= 5 (decrypt)
PassedLengthChecks ==
    /\ DriverReturned
    /\ BuffersInRam
    /\ HeadersPresent
    /\ IF op = "encrypt_packet"
       THEN clear_packet.bytes[2] >= 1 /\ ~EncLengthsBad(clear_packet.bytes[2])
       ELSE /\ cipher_packet.bytes[2] >= 5
            /\ cipher_packet.len >= 3 + cipher_packet.bytes[2]
            /\ clear_packet.len >= 3 + cipher_packet.bytes[2] - 4

\* the length field of the header the operation reads
HeaderLength ==
    IF op = "encrypt_packet" THEN clear_packet.bytes[2] ELSE cipher_packet.bytes[2]

\* C7: a request that passed the residency and buffer-length checks with
\* header length field L is rejected with InsufficientScratchArea if and only
\* if the scratch is shorter than max(43, L + 16).
C7_ScratchRule ==
    PassedLengthChecks =>
        (result = "InsufficientScratchArea"
           <=> scratch.len < (IF HeaderLength + 16 > 43 THEN HeaderLength + 16 ELSE 43))

\* C7 witness: L = 30 with a scratch of 45 bytes is rejected
C7_Witness ==
    /\ PassedLengthChecks
    /\ op = "encrypt_packet"
    /\ HeaderLength = 30
    /\ scratch.len = 45
    /\ result = "InsufficientScratchArea"

\* the payload bytes n of the packet, MIC excluded, once the header is read
PayloadBytes ==
    IF op = "encrypt_packet" THEN clear_packet.bytes[2] ELSE cipher_packet.bytes[2] - 4

AtLeast43(n) == IF n > 43 THEN n ELSE 43

\* C8 as stated: a scratch of exactly max(43, n + 16) bytes, n the payload
\* bytes without the MIC, is never rejected with InsufficientScratchArea,
\* neither by encrypt_packet nor by decrypt_packet of the ciphertext (length
\* field n + 4).
C8_Original ==
    (PassedLengthChecks /\ scratch.len = AtLeast43(PayloadBytes + 16)) =>
        result # "InsufficientScratchArea"

\* C8 amended: the minimum is max(43, L + 16) for the length field L of the
\* packet the operation reads: max(43, n + 16) for encrypt_packet and
\* max(43, n + 20) for decrypt_packet.  A scratch of exactly that size is
\* never rejected with InsufficientScratchArea; a scratch of exactly
\* max(43, n + 16) bytes is rejected by decrypt_packet when n >= 24.
C8_ScratchMinimumPerOperation ==
    /\ (PassedLengthChecks /\ op = "encrypt_packet"
          /\ scratch.len = AtLeast43(PayloadBytes + 16)) =>
         result # "InsufficientScratchArea"
    /\ (PassedLengthChecks /\ op = "decrypt_packet"
          /\ scratch.len = AtLeast43(PayloadBytes + 20)) =>
         result # "InsufficientScratchArea"
    /\ (PassedLengthChecks /\ op = "decrypt_packet"
          /\ scratch.len = AtLeast43(PayloadBytes + 16)) =>
         (result = "InsufficientScratchArea" <=> PayloadBytes >= 24)

\* C8 witness: decrypting n = 30 (length field 34) with a scratch of 50 bytes
\* completes
C8_Witness ==
    /\ PassedLengthChecks
    /\ op = "decrypt_packet"
    /\ cipher_packet.bytes[2] = 34
    /\ scratch.len = 50
    /\ result = "Ok"

\* C9: increment_counter takes a counter c <= 2^39 - 2 to c + 1 and the
\* counter 2^39 - 1 to 0; it returns nothing and changes no other field.
C9_IncrementWrapsAt39Bits ==
    Returned("increment_counter") =>
        LET a == old.data.packet_counter
            b == ccm_data.packet_counter
        IN /\ In39(a)
           /\ a = MaxBytes => b = ZeroBytes
           /\ a # MaxBytes => IsSuccessor(a, b) /\ In39(b)
           /\ ccm_data.key = old.data.key
           /\ ccm_data.direction = old.data.direction
           /\ ccm_data.initialization_vector = old.data.initialization_vector
           /\ result = "unit"
           /\ regs = old.regs

\* C9 witness: the increment of 2^39 - 1
C9_Witness ==
    /\ Returned("increment_counter")
    /\ old.data.packet_counter = MaxBytes
    /\ ccm_data.packet_counter = ZeroBytes

\* C10: decrement_counter takes a counter c > 0 to c - 1 and leaves the
\* counter 0 at 0; it returns nothing and changes no other field.
C10_DecrementSaturatesAtZero ==
    Returned("decrement_counter") =>
        LET a == old.data.packet_counter
            b == ccm_data.packet_counter
        IN /\ a = ZeroBytes => b = ZeroBytes
           /\ a # ZeroBytes => IsSuccessor(b, a)
           /\ In39(b)
           /\ ccm_data.key = old.data.key
           /\ ccm_data.direction = old.data.direction
           /\ ccm_data.initialization_vector = old.data.initialization_vector
           /\ result = "unit"
           /\ regs = old.regs

\* C10 witness: the decrement of 0
C10_Witness ==
    /\ Returned("decrement_counter")
    /\ old.data.packet_counter = ZeroBytes
    /\ ccm_data.packet_counter = ZeroBytes

\* C11: in every state reachable through set_key, set_iv, set_direction,
\* increment_counter, decrement_counter, encrypt_packet and decrypt_packet
\* (while a call runs as well as between calls) the packet counter is eight
\* bytes holding a value from 0 to 2^39 - 1, and the direction is 0 or 1.
C11_CounterAndDirectionInRange ==
    /\ Len(ccm_data.packet_counter) = 8
    /\ \A i \in 1..8 : ccm_data.packet_counter[i] \in 0..255
    /\ In39(ccm_data.packet_counter)
    /\ ccm_data.direction \in {0, 1}

\* C11 witness: a driver call has wrapped the counter from 2^39 - 1 to 0 and
\* set_direction(true) has followed
C11_Witness ==
    /\ Returned("set_direction")
    /\ seed = MaxBytes
    /\ n_ok = 1
    /\ ccm_data.packet_counter = ZeroBytes
    /\ ccm_data.direction = 1

\* the call has started the engine's crypt task
RanEngine == Wrote("tasks_crypt")

\* C12: once the engine has been started, an error signal that is set when
\* the crypt poll has ended makes the call return EasyDMAError and stop: the
\* MIC status is not read (also when it indicates a failure) and the counter
\* is not changed.  A call whose poll ended on the error signal returns
\* EasyDMAError; an encrypt_packet that returns with the error signal set
\* has returned EasyDMAError; decrypt_packet reaches the MIC status only
\* after it has read the error signal, and never when the poll ended on it.
C12_BusErrorBeforeMic ==
    /\ (DriverReturned /\ result = "EasyDMAError") =>
         /\ RanEngine
         /\ regs.events_error = 1
         /\ "micstatus" \notin reads
         /\ ~Wrote("read_micstatus")
         /\ trace[Len(trace)] = "read_events_error"
         /\ ccm_data = old.data
    /\ (DriverReturned /\ Wrote("seen_error")) => result = "EasyDMAError"
    /\ (Returned("encrypt_packet") /\ RanEngine /\ regs.events_error = 1) =>
         result = "EasyDMAError"
    /\ pc = "check_mic" =>
         /\ op = "decrypt_packet"
         /\ Wrote("read_events_error")
         /\ ~Wrote("seen_error")
         /\ "micstatus" \notin reads

\* C12 witness: a decryption completed with a failed MIC check (the check of
\* the call before had passed) and the error signal set: EasyDMAError
C12_Witness ==
    /\ Returned("decrypt_packet")
    /\ result = "EasyDMAError"
    /\ regs.events_endcrypt = 1
    /\ regs.events_error = 1
    /\ old.regs.micstatus = "CheckPassed"
    /\ regs.micstatus = "CheckFailed"

\* the engine has completed the crypt operation of the call and has not
\* raised the error signal
CompletedClean == RanEngine /\ regs.events_endcrypt = 1 /\ regs.events_error = 0

\* C13: when the engine has completed the crypt operation without raising
\* the error signal and the MIC status indicates a failure, decrypt_packet
\* returns InvalidMIC and leaves the counter unchanged; encrypt_packet never
\* reads the MIC status: after a completion without error it returns Ok and
\* has incremented the counter whatever the MIC status is.
C13_MicFailure ==
    /\ (Returned("decrypt_packet") /\ CompletedClean
          /\ regs.micstatus = "CheckFailed") =>
         /\ result = "InvalidMIC"
         /\ "micstatus" \in reads
         /\ ccm_data = old.data
    /\ (Returned("decrypt_packet") /\ RanEngine /\ result = "InvalidMIC") =>
         /\ regs.micstatus = "CheckFailed"
         /\ ccm_data = old.data
    /\ op = "encrypt_packet" =>
         /\ "micstatus" \notin reads
         /\ ~Wrote("read_micstatus")
    /\ (Returned("encrypt_packet") /\ CompletedClean) =>
         /\ result = "Ok"
         /\ IsNext39(old.data.packet_counter, ccm_data.packet_counter)

\* C13 witness: an encryption completed with the MIC status at CheckFailed
\* and returned Ok; the decryption after it completed without error with a
\* failed MIC check and returned InvalidMIC, the counter as it was
C13_Witness ==
    /\ Returned("decrypt_packet")
    /\ CompletedClean
    /\ regs.micstatus = "CheckFailed"
    /\ result = "InvalidMIC"
    /\ ccm_data = old.data
    /\ n_ok = 1
    /\ old.regs.mode.mode = "encryption"
    /\ old.regs.events_endcrypt = 1
    /\ old.regs.events_error = 0
    /\ old.regs.micstatus = "CheckFailed"

IsPrefix(s, t) == Len(s) <= Len(t) /\ SubSeq(t, 1, Len(s)) = s

\* what a call that reaches the engine does, up to the end of the crypt poll:
\* the register writes, the clearing of the events, the two triggers and the
\* two observations
StepsToPollEnd(seen) ==
    (IF family = "52840" /\ regs.mode.length = "EXTENDED"
     THEN <<"maxpacketsize">> ELSE <<>>)
    \o <<"mode", "cnfptr", "inptr", "outptr", "scratchptr",
         "events_endcrypt", "events_error", "events_endksgen",
         "tasks_ksgen", "seen_endksgen", "tasks_crypt", seen>>

\* the complete calls, by what they return
CompleteSteps(name, res) ==
    IF res = "EasyDMAError"
    THEN {StepsToPollEnd(seen) \o <<"read_events_error">> :
            seen \in {"seen_endcrypt", "seen_error"}}
    ELSE IF name = "encrypt_packet" /\ res = "Ok"
    THEN {StepsToPollEnd("seen_endcrypt") \o <<"read_events_error", "increment_counter">>}
    ELSE IF name = "decrypt_packet" /\ res = "InvalidMIC"
    THEN {StepsToPollEnd("seen_endcrypt") \o <<"read_events_error", "read_micstatus">>}
    ELSE IF name = "decrypt_packet" /\ res = "Ok"
    THEN {StepsToPollEnd("seen_endcrypt")
            \o <<"read_events_error", "read_micstatus", "increment_counter">>}
    ELSE {}

AllCompleteSteps(name) ==
    UNION {CompleteSteps(name, res) : res \in {"EasyDMAError", "InvalidMIC", "Ok"}}

\* C16: in a call that reaches the engine the steps come in one order, each
\* once: (extended-length register,) mode and length encoding, and the four
\* pointers (nonce state, input, output, scratch); the three events cleared;
\* key-stream generation triggered; its end observed; the crypt task
\* triggered; completion or error observed; the error event read; (in
\* decrypt_packet, the MIC status read;) the counter updated.  The input is
\* the cleartext for encrypt_packet and the ciphertext for decrypt_packet,
\* the output the other packet.  What was observed was raised by the engine,
\* and the engine runs only what has been triggered.
C16_EngineActionOrder ==
    (op \in DriverOps /\ site = "engine") =>
      /\ IF pc = "idle"
         THEN trace \in CompleteSteps(op, result)
         ELSE /\ result = "none"
              /\ \E t \in AllCompleteSteps(op) : IsPrefix(trace, t) /\ trace # t
      /\ Wrote("scratchptr") =>
           /\ regs.mode.mode = IF op = "encrypt_packet" THEN "encryption"
                               ELSE "decryption"
           /\ regs.cnfptr = "ccm_data"
           /\ regs.inptr = IF op = "encrypt_packet" THEN "clear_packet"
                           ELSE "cipher_packet"
           /\ regs.outptr = IF op = "encrypt_packet" THEN "cipher_packet"
                            ELSE "clear_packet"
           /\ regs.scratchptr = "scratch"
      /\ Wrote("seen_endksgen") => regs.events_endksgen = 1
      /\ Wrote("seen_endcrypt") => regs.events_endcrypt = 1
      /\ Wrote("seen_error") => regs.events_error = 1
      /\ eng \in {"ksgen", "ready"} => (Wrote("tasks_ksgen") /\ ~Wrote("tasks_crypt"))
      /\ eng = "crypt" => Wrote("tasks_crypt")
      /\ ~Wrote("tasks_ksgen") => eng = "idle"

\* C16 witness: a decrypt_packet with the extended length encoding, on a
\* family with the extended-length register, that has returned Ok
C16_Witness ==
    /\ Returned("decrypt_packet")
    /\ result = "Ok"
    /\ trace = <<"maxpacketsize", "mode", "cnfptr", "inptr", "outptr", "scratchptr",
                 "events_endcrypt", "events_error", "events_endksgen",
                 "tasks_ksgen", "seen_endksgen", "tasks_crypt", "seen_endcrypt",
                 "read_events_error", "read_micstatus", "increment_counter">>
    /\ regs.inptr = "cipher_packet"
    /\ regs.outptr = "clear_packet"

\* C17: over sequences of driver calls (after calls that left events set,
\* with rejected and zero-payload calls in between), when key-stream
\* generation is about to be triggered the three events are clear; a set
\* ENDKSGEN seen by the key-stream wait, and a set ENDCRYPT or ERROR seen by
\* the crypt poll, has been raised by the engine in this call, so that no
\* wait is skipped and no EasyDMAError returned for an earlier operation's
\* signal.
C17_NoStaleEvents ==
    /\ pc = "start_ksgen" =>
         /\ regs.events_endcrypt = 0
         /\ regs.events_error = 0
         /\ regs.events_endksgen = 0
    /\ pc = "wait_ksgen" =>
         /\ eng \in {"ksgen", "ready"}
         /\ regs.events_endksgen = 1 <=> eng = "ready"
    /\ pc \in {"wait_ksgen", "start_crypt"} =>
         /\ regs.events_endcrypt = 0
         /\ regs.events_error = 0
    /\ pc \in {"poll_endcrypt", "poll_error"} =>
         /\ eng \in {"crypt", "idle"}
         /\ (regs.events_endcrypt = 1 \/ regs.events_error = 1) <=> eng = "idle"
    /\ (DriverReturned /\ result = "EasyDMAError") =>
         /\ eng = "idle"
         /\ Wrote("events_error")
         /\ Wrote("tasks_crypt")

\* C17 witness: the second call is about to trigger key-stream generation;
\* the call before it had left ENDKSGEN and ERROR set
C17_Witness ==
    /\ calls = 2
    /\ pc = "start_ksgen"
    /\ old.regs.events_endksgen = 1
    /\ old.regs.events_error = 1
    /\ regs.events_endksgen = 0
    /\ regs.events_error = 0
    /\ regs.events_endcrypt = 0

\* C19 as claimed: a call whose crypt poll ended on the completion signal
\* (the error signal not seen set by the poll) does not return EasyDMAError,
\* even if the engine raises the error signal afterwards.
C19_Original ==
    (DriverReturned /\ Wrote("seen_endcrypt")) => result # "EasyDMAError"

\* C19: the crypt poll ends at the first of the two signals it sees set, and
\* the outcome is decided by the read of the error signal after the loop.  A
\* call whose poll ended on the error signal returns EasyDMAError.  A call
\* whose poll ended on the completion signal returns EasyDMAError exactly if
\* the error signal is set at that read: it does when the engine has raised
\* the error signal after the completion signal, and does not when the error
\* signal is still clear.
C19_ErrorReadDecides ==
    /\ (DriverReturned /\ Wrote("seen_error")) =>
         /\ result = "EasyDMAError"
         /\ regs.events_error = 1
    /\ (DriverReturned /\ Wrote("seen_endcrypt") /\ result = "EasyDMAError") =>
         /\ regs.events_endcrypt = 1
         /\ regs.events_error = 1
    /\ (Returned("encrypt_packet") /\ Wrote("seen_endcrypt")) =>
         (result = "EasyDMAError" <=> regs.events_error = 1)
    /\ (Returned("decrypt_packet") /\ Wrote("seen_endcrypt")
          /\ regs.events_error = 0) =>
         result \in {"Ok", "InvalidMIC"}

\* C19 witness: the poll of an encrypt_packet ended on the completion signal,
\* the engine raised the error signal after it, and the call returned
\* EasyDMAError with the counter unchanged
C19_Witness ==
    /\ Returned("encrypt_packet")
    /\ Wrote("seen_endcrypt")
    /\ regs.events_endcrypt = 1
    /\ regs.events_error = 1
    /\ result = "EasyDMAError"
    /\ ccm_data = old.data

\* C20 as claimed: on a family with the extended length encoding, both
\* operations select the default encoding iff payload_len <= 27; on nRF51 no
\* request with payload_len > 27 writes a register.
C20_Original ==
    (op \in DriverOps /\ Wrote("mode")) =>
      IF family = "51"
      THEN payload_len <= 27
      ELSE regs.mode.length = "DEFAULT" <=> payload_len <= 27

\* C20: on a family with the extended length encoding, encrypt_packet
\* selects the default encoding iff payload_len <= 27 and decrypt_packet iff
\* payload_len <= 31 (its payload_len includes the MIC), the extended
\* encoding otherwise: in both, the default encoding iff the length field of
\* the ciphertext is at most 31.  The extended-length register is written,
\* with payload_len, exactly when the family has it and the encoding is
\* extended.  On nRF51 an encrypt_packet with payload_len > 27 and a
\* decrypt_packet with payload_len > 31 is rejected before any register is
\* written, with WrongPacketLength when the checks before it pass; the calls
\* that reach the engine there use the default encoding.
C20_LengthEncodingRule ==
    /\ (op \in DriverOps /\ Wrote("mode") /\ family # "51") =>
         /\ op = "encrypt_packet" =>
              (regs.mode.length = "DEFAULT" <=> payload_len <= 27)
         /\ op = "decrypt_packet" =>
              (regs.mode.length = "DEFAULT" <=> payload_len <= 31)
         /\ regs.mode.length \in {"DEFAULT", "EXTENDED"}
         /\ Wrote("maxpacketsize") <=>
              (family = "52840" /\ regs.mode.length = "EXTENDED")
         /\ Wrote("maxpacketsize") => regs.maxpacketsize = payload_len
         /\ ~Wrote("maxpacketsize") => regs.maxpacketsize = old.regs.maxpacketsize
    /\ (op \in DriverOps /\ family = "51") =>
         /\ Wrote("mode") => regs.mode.length = "DEFAULT"
         /\ ~Wrote("maxpacketsize")
         /\ ((op = "encrypt_packet" /\ payload_len > 27)
               \/ (op = "decrypt_packet" /\ payload_len > 31)) =>
              /\ pc = "idle"
              /\ NoEngineAccess
              /\ result \in {"WrongPacketLength", "InsufficientScratchArea"}
         /\ site = "family" => result = "WrongPacketLength"

\* C20 witness: a decrypt_packet of a ciphertext with length field 31, on a
\* family with the extended encoding, has run with the default encoding
C20_Witness ==
    /\ Returned("decrypt_packet")
    /\ family = "52832"
    /\ payload_len = 31
    /\ Wrote("mode")
    /\ regs.mode.length = "DEFAULT"
    /\ result = "Ok"

\* a call that does not reach the engine returns in its first step, without
\* reading a register
NoWaitWithoutEngine ==
    (op \in DriverOps /\ site # "engine") =>
      (pc = "idle" /\ result # "none" /\ reads = {})

\* a call in progress eventually returns
CallReturns == (pc # "idle") ~> (pc = "idle")

\* while the awaited signal is clear the call stays in its wait, returns
\* nothing and leaves the CcmData alone
NoTimeout ==
    /\ (pc = "wait_ksgen" /\ regs.events_endksgen = 0) =>
         (pc' = "wait_ksgen" /\ result' = "none" /\ ccm_data' = old.data)
    /\ (pc \in {"poll_endcrypt", "poll_error"}
          /\ regs.events_endcrypt = 0 /\ regs.events_error = 0) =>
         (pc' \in {"poll_endcrypt", "poll_error"} /\ result' = "none"
            /\ ccm_data' = old.data)

\* C18: a call that does not reach the engine returns without waiting.  A
\* call that reaches the engine eventually returns if the engine eventually
\* raises ENDKSGEN after the key-stream generation is triggered and ENDCRYPT
\* or ERROR after the crypt task is triggered.  There is no timeout: as long
\* as the awaited signal is clear the call does not leave its wait, and the
\* counter is not changed.
C18_ReturnsIffEngineAnswers ==
    /\ []NoWaitWithoutEngine
    /\ CallReturns
    /\ [][NoTimeout]_vars

\* C18 witness: the second call of a sequence is in its crypt poll, has read
\* both signals, and the engine has not answered yet
C18_Witness ==
    /\ calls = 2
    /\ pc = "poll_endcrypt"
    /\ eng = "crypt"
    /\ {"events_endcrypt", "events_error"} \subseteq reads
    /\ regs.events_endcrypt = 0
    /\ regs.events_error = 0
    /\ result = "none"
    /\ ccm_data = old.data

\* C15 as claimed: after every encrypt_packet that returns Ok, payload length
\* 0 included, the ciphertext packet has the S0 and S1 of the cleartext
\* packet, the length field payload length + 4, and after the header the
\* encrypted payload and the MIC.
C15_Original ==
    (Returned("encrypt_packet") /\ result = "Ok") =>
      /\ cipher_packet.bytes = <<clear_packet.bytes[1], payload_len + 4,
                                 clear_packet.bytes[3]>>
      /\ cipher_packet.body = Body("cipher", payload_len, old.data)

\* C15: after an encrypt_packet that returns Ok for a payload length of 1 or
\* more, the ciphertext packet has the S0 and S1 of the cleartext packet, the
\* length field payload length + 4 and, after the header, the payload
\* encrypted under the nonce state of the call and the MIC; the cleartext
\* packet is as it was.  For payload length 0 the ciphertext packet is the
\* three header bytes of the cleartext packet, length field 0, and nothing
\* is written after them: no MIC.
C15_CiphertextFormat ==
    (Returned("encrypt_packet") /\ result = "Ok") =>
      /\ clear_packet.bytes = <<165, payload_len, 90>>
      /\ clear_packet.body = Data(payload_len)
      /\ IF payload_len = 0
         THEN /\ ~RanEngine
              /\ cipher_packet.bytes = <<165, 0, 90>>
              /\ cipher_packet.body = ZeroBody
         ELSE /\ RanEngine
              /\ payload_len \in 1..251
              /\ cipher_packet.len >= payload_len + 7
              /\ cipher_packet.bytes = <<165, payload_len + 4, 90>>
              /\ cipher_packet.body = Body("cipher", payload_len, old.data)

\* C15 witness: the longest payload, 251 bytes, encrypted: length field 255
C15_Witness ==
    /\ Returned("encrypt_packet")
    /\ result = "Ok"
    /\ payload_len = 251
    /\ cipher_packet.bytes = <<165, 255, 90>>
    /\ cipher_packet.body.kind = "cipher"

\* the decrypt_packet of SpecRoundTrip has returned, its engine (if it ran)
\* has raised no error, and the nonce state it was called with is the one the
\* ciphertext was encrypted under
RoundTripDone ==
    /\ Returned("decrypt_packet")
    /\ calls = 2
    /\ regs.events_error = 0 \/ ~RanEngine
    /\ payload_len > 0 => cipher_packet.body.nonce = old.data

\* C14: encrypt_packet of a well-formed cleartext packet (S0, length field n,
\* S1, n bytes of data; n from 0 to the family maximum) and then
\* decrypt_packet of the ciphertext packet with the nonce state of the
\* encryption returns Ok and gives the cleartext packet again: S0, length
\* field n, S1 and, for n >= 1, the n bytes of data; the ciphertext packet is
\* as the encryption left it.
C14_RoundTrip ==
    RoundTripDone =>
      LET n == IF payload_len = 0 THEN 0 ELSE cipher_packet.body.n IN
      /\ result = "Ok"
      /\ payload_len = IF n = 0 THEN 0 ELSE n + 4
      /\ cipher_packet.bytes = <<165, payload_len, 90>>
      /\ clear_packet.len = n + 3
      /\ clear_packet.bytes = <<165, n, 90>>
      /\ n >= 1 => clear_packet.body = Data(n)
      /\ n >= 1 <=> RanEngine

\* C14 witness: 251 bytes encrypted at counter 0 (counter 1 afterwards), the
\* counter put back to 0 by decrement_counter, and the ciphertext decrypted:
\* Ok, 251 bytes of data, counter 1
C14_Witness ==
    /\ RoundTripDone
    /\ nonce_ops = 1
    /\ seed = ZeroBytes
    /\ old.data.packet_counter = ZeroBytes
    /\ ccm_data.packet_counter = <<1, 0, 0, 0, 0, 0, 0, 0>>
    /\ payload_len = 255
    /\ result = "Ok"
    /\ clear_packet.bytes = <<165, 251, 90>>
    /\ clear_packet.body = Data(251)

====
